---- MODULE Spec2Model ----
(***************************************************************************)
(* State-machine model of the news feed screen (src/app/index.tsx) and its *)
(* query client (src/unnamed/part_000).                                    *)
(*                                                                         *)
(* NewsApp keeps three pieces of React state (searchInput, searchTerm,     *)
(* activeCategory) and hands the fetching to useInfiniteQuery of           *)
(* @tanstack/react-query v5 (initialPageParam, status 'pending'), with a   *)
(* QueryClient built without options.  What the screen does is therefore   *)
(* the library's behaviour under the options the code passes and the       *)
(* defaults it leaves alone: one cache entry per queryKey, retry 3,        *)
(* staleTime 0, fetchNextPage with cancelRefetch true, no abort of the     *)
(* network call because queryFn never reads the signal.                    *)
(***************************************************************************)
EXTENDS Integers, Sequences, FiniteSets, TLC

(***************************************************************************)
(* Bounds of the exploration.                                              *)
(***************************************************************************)
\* number of network calls (axios.get) explored in one behaviour
MaxCalls == 5
\* number of fetches (Query.fetch starting a retryer) explored in one behaviour
MaxFetches == 3
\* page numbers tried when fetchNews is checked on its own
MaxPage == 4

(***************************************************************************)
(* Program constants.                                                      *)
(***************************************************************************)
API_KEY == "cd00e60d5e354c99a1d67fb99609d403"
CATEGORIES == <<"all", "politics", "tech", "sports", "business">>
PAGE_SIZE == 10
INITIAL_PAGE_PARAM == 1
\* new QueryClient() sets no defaultOptions: failed fetches are retried 3 times
DEFAULT_RETRY == 3

\* CATEGORY_SOURCES: the object's own keys and their values
CATEGORY_SOURCES_KEYS == {"politics", "tech", "sports", "business"}
CATEGORY_SOURCES(category) ==
    CASE category = "politics" -> "bbc-news,the-guardian-uk"
      [] category = "tech"     -> "techcrunch,wired"
      [] category = "sports"   -> "espn,bbc-sport"
      [] category = "business" -> "bloomberg,financial-times"

Range(s) == {s[i] : i \in DOMAIN s}

\* the picker values and the search texts of the explored behaviours
Cats == {"all", "tech"}
Terms == {"", "ai"}
\* the search texts fetchNews is tried on when it is checked on its own
AllTerms == {"", "ai", " ", "news"}

(***************************************************************************)
(* fetchNews: the request it builds.  The request is the params object     *)
(* handed to axios.get; "sources" is a key of it only when it was set.     *)
(***************************************************************************)
QueryTermBroken(searchTerm) == searchTerm
QueryTerm(searchTerm) == IF searchTerm = "" THEN "news" ELSE searchTerm

HasSources(category) == category # "all" /\ category \in CATEGORY_SOURCES_KEYS

BaseParams(searchTerm, page) ==
    [apiKey |-> API_KEY, q |-> QueryTerm(searchTerm), page |-> page, pageSize |-> PAGE_SIZE]

RequestParams(category, searchTerm, page) ==
    IF HasSources(category)
    THEN BaseParams(searchTerm, page) @@ ("sources" :> CATEGORY_SOURCES(category))
    ELSE BaseParams(searchTerm, page)

\* the value fetchNews resolves to for a response body `articles`; `args` is
\* the call's arguments, kept with the page to tell which call produced it
NewsResponseSamePage(args, articles) ==
    [articles |-> articles, nextPage |-> args.page, args |-> args]
NewsResponse(args, articles) ==
    [articles |-> articles, nextPage |-> args.page + 1, args |-> args]


(***************************************************************************)
(* The remote endpoint: what response.data.articles can be.  An article is *)
(* identified here by its url and publishedAt, the two fields the list's   *)
(* keyExtractor reads.                                                     *)
(***************************************************************************)
Article(u, p) == [url |-> u, publishedAt |-> p]
FullPage == [i \in 1..PAGE_SIZE |-> Article(i, 1)]
ShortPage == << Article(1, 1), Article(1, 2), Article(12, 1) >>
Bodies == {FullPage, ShortPage}
\* what axios.get can reject with (error.message)
Causes == {"Network Error", "Request failed with status code 429"}

(***************************************************************************)
(* State.                                                                  *)
(*   searchInput, searchTerm, activeCategory : the three useState cells    *)
(*   queries  : the QueryClient's cache, one entry per queryKey            *)
(*              ['news', activeCategory, searchTerm]                       *)
(*   chains   : the fetches in progress (one retryer each), with the       *)
(*              network call each is waiting for                           *)
(*   calls    : how many axios.get were made so far                        *)
(*   lastCall : the last axios.get made: its arguments and request         *)
(*   fetches  : how many fetches (retryers) were started so far            *)
(*   fnIn, fnOut : argument and result of fetchNews when it is checked on  *)
(*              its own (SpecFetch)                                        *)
(***************************************************************************)
VARIABLES searchInput, searchTerm, activeCategory, queries, chains, calls, lastCall,
          fetches, fnIn, fnOut

vars == <<searchInput, searchTerm, activeCategory, queries, chains, calls, lastCall,
          fetches, fnIn, fnOut>>

Keys == Cats \X Terms
CurrentKey == <<activeCategory, searchTerm>>

\* fetchNews not called yet
NoArgs == [category |-> "all", searchTerm |-> "", page |-> 1]
NoResult == [called |-> FALSE]

NoData == [pages |-> <<>>, pageParams |-> <<>>]
\* a cache entry that does not exist / a freshly built one
NoQuery == [exists |-> FALSE, status |-> "pending", fetchStatus |-> "idle",
            fetchMore |-> "none", data |-> NoData, error |-> "none", run |-> 0]
NewQuery == [NoQuery EXCEPT !.exists = TRUE]

World == [queries |-> queries, chains |-> chains, calls |-> calls, lastCall |-> lastCall,
          fetches |-> fetches]

\* queryFn: ({pageParam = 1}) => fetchNews({category: activeCategory, searchTerm, page: pageParam}),
\* the closure of the render whose queryKey is `key`
QueryFnArgs(key, pageParam) == [category |-> key[1], searchTerm |-> key[2], page |-> pageParam]

\* getNextPageParam: (lastPage) => lastPage.nextPage ?? undefined, on the last page
HasNextPageParam(data) ==
    /\ Len(data.pages) > 0
    /\ "nextPage" \in DOMAIN data.pages[Len(data.pages)]
GetNextPageParam(data) == data.pages[Len(data.pages)].nextPage

\* one axios.get: the request leaves; `attempt` is the retryer's failureCount
\* and `run` the fetch that made the call
IssueCall(w, id, key, pageParam, attempt) ==
    [w EXCEPT !.calls = @ + 1,
              !.lastCall = [args    |-> QueryFnArgs(key, pageParam),
                            params  |-> RequestParams(key[1], key[2], pageParam),
                            attempt |-> attempt,
                            run     |-> id]]

\* retryer.cancel({silent: true}): the promise is rejected at once and nothing is
\* dispatched.  A call already in flight is not aborted (queryFn never reads the
\* signal): its continuation runs and its outcome is dropped, so the fetch is
\* kept only while it can still make a call (a refetch with pages left to fetch)
CancelSilent(w, key) ==
    LET id == w.queries[key].run IN
    [w EXCEPT !.chains = {IF c.id = id THEN [c EXCEPT !.cancelled = TRUE] ELSE c
                             : c \in {d \in @ : ~(d.id = id /\ (d.phase = "sleep" \/ d.todo = 1))}}]

\* retryer.cancelRetry() / continueRetry()
SetRetryCancelled(w, key, b) ==
    LET id == w.queries[key].run IN
    [w EXCEPT !.chains = {IF c.id = id THEN [c EXCEPT !.retryCancelled = b] ELSE c : c \in @}]

\* Query.fetch when a new retryer is started: dispatch 'fetch', run fetchFn up to
\* its first await
StartFetch(w, key, meta) ==
    LET q    == w.queries[key]
        id   == w.fetches + 1
        more == meta = "forward" /\ Len(q.data.pages) > 0
        acc  == IF more THEN q.data ELSE NoData
        todo == IF more \/ Len(q.data.pages) = 0 THEN 1 ELSE Len(q.data.pages)
        par  == IF more THEN GetNextPageParam(q.data)
                ELSE IF Len(q.data.pageParams) > 0 THEN q.data.pageParams[1]
                ELSE INITIAL_PAGE_PARAM
        c    == [id |-> id, key |-> key, acc |-> acc, todo |-> todo, param |-> par,
                 failureCount |-> 0, retryCancelled |-> FALSE, cancelled |-> FALSE,
                 phase |-> "call", cause |-> "none"]
        q1   == [q EXCEPT !.fetchStatus = "fetching", !.fetchMore = meta, !.run = id]
        q2   == IF Len(q.data.pages) = 0
                THEN [q1 EXCEPT !.status = "pending", !.error = "none"] ELSE q1
        w1   == [w EXCEPT !.queries[key] = q2, !.chains = @ \cup {c}, !.fetches = id]
    IN  IssueCall(w1, id, key, par, 0)

\* Query.fetch(options, fetchOptions)
QueryFetch(w, key, meta, cancelRefetch) ==
    LET q == w.queries[key] IN
    IF q.fetchStatus # "idle"
    THEN IF Len(q.data.pages) > 0 /\ cancelRefetch
         THEN StartFetch(CancelSilent(w, key), key, meta)
         ELSE SetRetryCancelled(w, key, FALSE)
    ELSE StartFetch(w, key, meta)

\* QueryObserver.setOptions with a changed queryKey: the old query loses its only
\* observer (cancelRetry, as the signal was not consumed), the new one is built
\* if absent and, being stale (staleTime 0), fetched
SwitchObserver(w, old, new) ==
    LET w1 == SetRetryCancelled(w, old, TRUE)
        w2 == IF w1.queries[new].exists THEN w1 ELSE [w1 EXCEPT !.queries[new] = NewQuery]
    IN  QueryFetch(w2, new, "none", FALSE)

(***************************************************************************)
(* What NewsApp renders from the observer's result for the current key.    *)
(***************************************************************************)
Current == queries[CurrentKey]

\* const allNews = data?.pages.flatMap((page) => page.articles) || []
RECURSIVE FlatMapArticlesReversed(_)
FlatMapArticlesReversed(pages) ==
    IF pages = <<>> THEN <<>>
    ELSE FlatMapArticlesReversed(Tail(pages)) \o Head(pages).articles
RECURSIVE FlatMapArticles(_)
FlatMapArticles(pages) ==
    IF pages = <<>> THEN <<>>
    ELSE Head(pages).articles \o FlatMapArticles(Tail(pages))

AllNewsOfReversed(q) == FlatMapArticlesReversed(q.data.pages)
AllNewsOf(q) == FlatMapArticles(q.data.pages)
allNews == AllNewsOf(Current)

\* status === 'pending' ? <ActivityIndicator/> : status === 'error' ? <Text/> : <FlatList/>
Rendered(q) ==
    IF q.status = "pending" THEN "loader"
    ELSE IF q.status = "error" THEN "errorText"
    ELSE "list"

\* the articles on screen: FlatList's data when the FlatList is what is rendered
VisibleOf(q) == IF Rendered(q) = "list" THEN AllNewsOf(q) ELSE <<>>
Visible == VisibleOf(Current)

\* error.message shown by the error branch
ErrorShownOf(q) == IF Rendered(q) = "errorText" THEN q.error ELSE "none"

hasNextPage == HasNextPageParam(Current.data)
isFetchingNextPage == Current.fetchStatus = "fetching" /\ Current.fetchMore = "forward"

(***************************************************************************)
(* Init: the state after the first render and mount.  The observer         *)
(* subscribes to ['news', 'all', ''], which has no data, and fetches it.   *)
(***************************************************************************)
InitKey == <<"all", "">>
InitWorld ==
    StartFetch([queries |-> [k \in Keys |-> IF k = InitKey THEN NewQuery ELSE NoQuery],
                chains  |-> {},
                calls   |-> 0,
                lastCall |-> "none",
                fetches |-> 0], InitKey, "none")

Init ==
    /\ searchInput = ""
    /\ searchTerm = ""
    /\ activeCategory = "all"
    /\ queries = InitWorld.queries
    /\ chains = InitWorld.chains
    /\ calls = InitWorld.calls
    /\ lastCall = InitWorld.lastCall
    /\ fetches = InitWorld.fetches
    /\ fnIn = NoArgs
    /\ fnOut = NoResult

\* an action's effect on the cache, the fetches and the network, within the bound
Commit(w) ==
    /\ w.calls <= MaxCalls
    /\ w.fetches <= MaxFetches
    /\ queries' = w.queries
    /\ chains' = w.chains
    /\ calls' = w.calls
    /\ lastCall' = w.lastCall
    /\ fetches' = w.fetches

(***************************************************************************)
(* User events.                                                            *)
(***************************************************************************)
\* onChangeText={setSearchInput}
SetSearchInput(t) ==
    /\ t # searchInput
    /\ searchInput' = t
    /\ UNCHANGED <<searchTerm, activeCategory, queries, chains, calls, lastCall, fetches, fnIn, fnOut>>

\* handleSearch: setSearchTerm(searchInput).  An equal value changes no state
\* and nothing re-renders; a new one re-renders with a new queryKey.
HandleSearch ==
    /\ searchTerm' = searchInput
    /\ IF searchInput = searchTerm
       THEN UNCHANGED <<queries, chains, calls, lastCall, fetches>>
       ELSE Commit(SwitchObserver(World, CurrentKey, <<activeCategory, searchInput>>))
    /\ UNCHANGED <<searchInput, activeCategory, fnIn, fnOut>>

\* Picker onValueChange: setActiveCategory(itemValue), fired when the selected
\* value changes; the re-render has a new queryKey
SetActiveCategory(c) ==
    /\ c # activeCategory
    /\ activeCategory' = c
    /\ Commit(SwitchObserver(World, CurrentKey, <<c, searchTerm>>))
    /\ UNCHANGED <<searchInput, searchTerm, fnIn, fnOut>>

\* fetchNextPage(): observer.fetch with meta fetchMore forward; cancelRefetch
\* is not given and defaults to true
FetchNextPage(w, key) == QueryFetch(w, key, "forward", TRUE)

\* FlatList onEndReached={() => hasNextPage && fetchNextPage()}; the FlatList
\* exists only in the last branch of the render
OnEndReached ==
    /\ Rendered(Current) = "list"
    /\ IF hasNextPage
       THEN Commit(FetchNextPage(World, CurrentKey))
       ELSE UNCHANGED <<queries, chains, calls, lastCall, fetches>>
    /\ UNCHANGED <<searchInput, searchTerm, activeCategory, fnIn, fnOut>>

(***************************************************************************)
(* Network and timer events.                                               *)
(***************************************************************************)
\* the cache entry a fetch's outcome is written to: the query the fetch was
\* started on, i.e. the queryKey of the render that started it
ResolveTargetCurrent(c) == CurrentKey
ResolveTarget(c) == c.key

\* addToEnd(data.pages, page), addToEnd(data.pageParams, param)
AddPage(data, page, param) ==
    [pages |-> Append(data.pages, page), pageParams |-> Append(data.pageParams, param)]

\* retryer: retry = config.retry ?? 3; shouldRetry = failureCount < retry
ShouldRetryAlways(failureCount) == TRUE
ShouldRetry(failureCount) == failureCount < DEFAULT_RETRY

\* dispatch {type: 'success'} / {type: 'error'}
SetSuccess(w, key, data) ==
    [w EXCEPT !.queries[key] = [@ EXCEPT !.status = "success", !.data = data,
                                         !.error = "none", !.fetchStatus = "idle"]]
SetError(w, key, cause) ==
    [w EXCEPT !.queries[key] = [@ EXCEPT !.status = "error", !.error = cause,
                                         !.fetchStatus = "idle"]]

Without(w, c) == [w EXCEPT !.chains = @ \ {c}]

\* axios.get resolves with `body` as response.data.articles: fetchNews returns
\* the page, fetchPage adds it; a refetch of several pages goes on to the next
\* page, otherwise fetchFn resolves and, unless the retryer was cancelled
\* meanwhile, the data is set
ResolveSuccess(c, body) ==
    LET page == NewsResponse(QueryFnArgs(c.key, c.param), body)
        acc  == AddPage(c.acc, page, c.param)
        w0   == Without(World, c)
    IN  /\ c.phase = "call"
        /\ IF c.todo > 1 /\ HasNextPageParam(acc)
           THEN LET nxt == GetNextPageParam(acc)
                    c1  == [c EXCEPT !.acc = acc, !.todo = @ - 1, !.param = nxt]
                IN  Commit(IssueCall([w0 EXCEPT !.chains = @ \cup {c1}],
                                     c.id, c.key, nxt, c.failureCount))
           ELSE IF c.cancelled
                THEN Commit(w0)
                ELSE Commit(SetSuccess(w0, ResolveTarget(c), acc))
        /\ UNCHANGED <<searchInput, searchTerm, activeCategory, fnIn, fnOut>>

\* axios.get rejects: fetchNews and fetchFn reject with the same error.  A
\* cancelled retryer drops it; otherwise the retryer rejects (error state) when
\* retries are cancelled or used up, and else sleeps before it runs fetchFn again
ResolveFailure(c, cause) ==
    LET w0 == Without(World, c) IN
    /\ c.phase = "call"
    /\ IF c.cancelled
       THEN Commit(w0)
       ELSE IF c.retryCancelled \/ ~ShouldRetry(c.failureCount)
            THEN Commit(SetError(w0, ResolveTarget(c), cause))
            ELSE Commit([w0 EXCEPT !.chains = @ \cup
                            {[c EXCEPT !.failureCount = @ + 1, !.phase = "sleep",
                                       !.cause = cause]}])
    /\ UNCHANGED <<searchInput, searchTerm, activeCategory, fnIn, fnOut>>

\* the retry delay is over: reject if retries were cancelled meanwhile, else
\* run fetchFn again, which calls queryFn for the page that failed
RetryWake(c) ==
    LET w0 == Without(World, c) IN
    /\ c.phase = "sleep"
    /\ IF c.retryCancelled
       THEN Commit(SetError(w0, ResolveTarget(c), c.cause))
       ELSE Commit(IssueCall([w0 EXCEPT !.chains = @ \cup {[c EXCEPT !.phase = "call"]}],
                             c.id, c.key, c.param, c.failureCount))
    /\ UNCHANGED <<searchInput, searchTerm, activeCategory, fnIn, fnOut>>

\* gcTime is over for a query without observer: it is removed if it is idle
Gc(key) ==
    /\ key # CurrentKey
    /\ queries[key].exists
    /\ queries[key].fetchStatus = "idle"
    /\ queries' = [queries EXCEPT ![key] = NoQuery]
    /\ UNCHANGED <<searchInput, searchTerm, activeCategory, chains, calls, lastCall, fetches, fnIn, fnOut>>

\* the events, over their inputs
TypeSearch == \E t \in Terms : SetSearchInput(t)
PickCategory == \E c \in Cats : SetActiveCategory(c)
AxiosResolves == \E c \in chains, body \in Bodies : ResolveSuccess(c, body)
AxiosRejects == \E c \in chains, cause \in Causes : ResolveFailure(c, cause)
RetryTimer == \E c \in chains : RetryWake(c)
GcTimer == \E key \in Keys : Gc(key)

Next ==
    \/ TypeSearch
    \/ HandleSearch
    \/ PickCategory
    \/ OnEndReached
    \/ AxiosResolves
    \/ AxiosRejects
    \/ RetryTimer
    \/ GcTimer

Spec == Init /\ [][Next]_vars

(***************************************************************************)
(* fetchNews on its own: every category of the picker, a few search texts  *)
(* and page numbers; the action makes the call and records the request     *)
(* handed to axios.get.                                                    *)
(***************************************************************************)
FetchInputs ==
    [category : Range(CATEGORIES), searchTerm : AllTerms, page : 1..MaxPage]

InitFetch ==
    /\ searchInput = ""
    /\ searchTerm = ""
    /\ activeCategory = "all"
    /\ queries = InitWorld.queries
    /\ chains = InitWorld.chains
    /\ calls = InitWorld.calls
    /\ lastCall = InitWorld.lastCall
    /\ fetches = InitWorld.fetches
    /\ fnIn \in FetchInputs
    /\ fnOut = NoResult

CallFetchNews ==
    /\ ~fnOut.called
    /\ fnOut' = [called |-> TRUE,
                 params |-> RequestParams(fnIn.category, fnIn.searchTerm, fnIn.page)]
    /\ UNCHANGED <<searchInput, searchTerm, activeCategory, queries, chains, calls,
                   lastCall, fetches, fnIn>>

NextFetch == CallFetchNews

SpecFetch == InitFetch /\ [][NextFetch]_vars


(***************************************************************************)
(* Properties.                                                             *)
(***************************************************************************)
KeyOfArgs(a) == <<a.category, a.searchTerm>>
KeyUnchanged == <<activeCategory, searchTerm>>' = <<activeCategory, searchTerm>>
CurrentPages == Current.data.pages
IsPrefix(a, b) == Len(a) <= Len(b) /\ SubSeq(b, 1, Len(a)) = a

\* C1: every page cached, and so shown, for the current query identity was
\* fetched by a call made for that identity, however the setQuery calls and
\* the responses interleave.
C1_NoCrossContamination ==
    \A i \in 1..Len(CurrentPages) : KeyOfArgs(CurrentPages[i].args) = CurrentKey

\* the race: the current query has its pages, and a query that was started
\* before it, and is no longer the current one, had its response applied too
C1_Witness ==
    /\ Len(CurrentPages) > 0
    /\ \E k \in Keys : /\ k # CurrentKey
                       /\ queries[k].run < Current.run
                       /\ Len(queries[k].data.pages) > 0

\* C2: while a next-page fetch of the current query is pending, a further
\* end-reached trigger starts no second fetch (and so no second network call
\* for the page).
C2_SecondTriggerIsNoOp ==
    [][(isFetchingNextPage /\ KeyUnchanged) => fetches' = fetches]_vars

\* C3: once the last cached page of the current query has fewer than pageSize
\* articles (Exhausted), no network call is made for that identity until the
\* identity changes.
Exhausted ==
    /\ Current.status = "success"
    /\ Current.fetchStatus = "idle"
    /\ Len(CurrentPages[Len(CurrentPages)].articles) < PAGE_SIZE
C3_ExhaustedStops ==
    [][(Exhausted /\ KeyUnchanged)
          => ~(calls' > calls /\ KeyOfArgs(lastCall'.args) = CurrentKey)]_vars

\* C4: the request fetchNews builds has q = searchTerm, or "news" for the empty
\* term, the page asked for, pageSize 10, and the category's source list
\* exactly when the category is not "all"; "tech" with the empty term gives
\* {sources: "techcrunch,wired", q: "news", page: 1, pageSize: 10}.
ExpectedSources ==
    [politics |-> "bbc-news,the-guardian-uk", tech |-> "techcrunch,wired",
     sports |-> "espn,bbc-sport", business |-> "bloomberg,financial-times"]
C4_Request ==
    fnOut.called =>
        LET r == fnOut.params IN
        /\ r.q = (IF fnIn.searchTerm = "" THEN "news" ELSE fnIn.searchTerm)
        /\ r.page = fnIn.page
        /\ r.pageSize = 10
        /\ ("sources" \in DOMAIN r) <=> (fnIn.category # "all")
        /\ fnIn.category # "all" => r.sources = ExpectedSources[fnIn.category]
        /\ (fnIn.category = "tech" /\ fnIn.searchTerm = "" /\ fnIn.page = 1)
              => /\ DOMAIN r = {"apiKey", "sources", "q", "page", "pageSize"}
                 /\ r.sources = "techcrunch,wired" /\ r.q = "news"
                 /\ r.page = 1 /\ r.pageSize = 10

C4_Witness ==
    /\ fnOut.called
    /\ fnIn.category = "tech" /\ fnIn.searchTerm = "" /\ fnIn.page = 1

\* C5: the flattened feed is the pages of the current query, taken by
\* ascending page number, each page's articles in the order received; and a
\* page appended to the current query leaves the feed so far as a prefix.
PageNumbered(pages, n) == CHOOSE pg \in Range(pages) : pg.args.page = n
RECURSIVE ConcatByNumber(_, _)
ConcatByNumber(pages, n) ==
    IF n = 0 THEN <<>>
    ELSE ConcatByNumber(pages, n - 1) \o PageNumbered(pages, n).articles
FeedIsConcatenation ==
    /\ \A n \in 1..Len(CurrentPages) : \E pg \in Range(CurrentPages) : pg.args.page = n
    /\ allNews = ConcatByNumber(CurrentPages, Len(CurrentPages))
C5_FeedOrder ==
    [][/\ FeedIsConcatenation'
       /\ (KeyUnchanged /\ Len(CurrentPages') = Len(CurrentPages) + 1)
             => IsPrefix(allNews, allNews')]_vars

\* a second page was appended behind a first one, and both are on screen
C5_Witness ==
    /\ Len(CurrentPages) >= 2
    /\ Len(Visible) = Len(CurrentPages[1].articles) + Len(CurrentPages[2].articles)
    /\ Len(CurrentPages[1].articles) > 0
    /\ Len(CurrentPages[2].articles) > 0

InError(q) == q.status = "error" /\ q.fetchStatus = "idle"
C7_LoadedArticlesStayVisible ==
    (Current.status = "error" /\ Current.fetchMore = "forward" /\ Len(CurrentPages) > 0)
        => Visible = FlatMapArticles(CurrentPages)

\* C8: no two items of the feed on screen have the same url and publishedAt.
C8_NoDuplicateItems ==
    \A i, j \in 1..Len(Visible) :
        (Visible[i].url = Visible[j].url /\ Visible[i].publishedAt = Visible[j].publishedAt)
            => i = j

\* C9: in Error, submitting the search again with the term unchanged starts a
\* new attempt to fetch page 1 of the current query.
C9_ResubmitRetries ==
    (InError(Current) /\ searchInput = searchTerm /\ calls < MaxCalls /\ fetches < MaxFetches)
        => ENABLED (/\ HandleSearch
                    /\ fetches' = fetches + 1
                    /\ lastCall'.args = QueryFnArgs(CurrentKey, INITIAL_PAGE_PARAM))

\* C10: the pages cached for the current query are numbered 1..k in order; a
\* fetch started by an identity change asks for page 1 and a fetch started by
\* loadMore asks for the last cached page number plus one.
Contiguous(data) ==
    /\ Len(data.pageParams) = Len(data.pages)
    /\ \A i \in 1..Len(data.pages) :
          /\ data.pageParams[i] = i
          /\ data.pages[i].args.page = i
C10_ContiguousPages ==
    [][/\ Contiguous(Current.data)'
       /\ fetches' > fetches
             => lastCall'.args.page = IF KeyUnchanged THEN Len(CurrentPages) + 1 ELSE 1]_vars

\* two pages cached for the current query, the second fetched by loadMore
C10_Witness ==
    /\ Current.data.pageParams = <<1, 2>>
    /\ Current.fetchMore = "forward"
    /\ Current.status = "success"

====
